---- MODULE Spec2Model ----
(***************************************************************************)
(* Proctoring / strike-escalation engine of the interview platform:        *)
(*   hooks/useStrikeSystem.ts       the strike ledger                      *)
(*   hooks/useInterviewProctoring.ts the facade                            *)
(*   hooks/useFaceMonitor.ts         the face / pose monitor               *)
(*   lib/face-detection/detect-facial-details.ts  continuous detection     *)
(*                                                                         *)
(* The hooks run under React: a state setter called from a callback only   *)
(* queues an update; the queued updates (and the updater functions passed  *)
(* to the setters) are run at the next render, in dispatch order, hook by  *)
(* hook.  Callbacks read the state captured by the last render.            *)
(***************************************************************************)
EXTENDS Integers, Sequences, FiniteSets, TLC

VARIABLES
  \* ---- strike ledger (useStrikeSystem) -------------------------------
  maxStrikes,       \* option maxStrikes of this mount
  strikes,          \* useState(0)               as of the last render
  violations,       \* useState<Violation[]>([]) as of the last render
  notification,     \* useState(null)            as of the last render
  isTerminated,     \* useState(false)           as of the last render
  terminationRef,   \* useRef: id of the termination timer, 0 for null
  timers,           \* pending setTimeout timers: set of [id, due]
  pendingUpdates,   \* setter calls dispatched since the last render
  mounted,          \* the component is mounted
  now,              \* Date.now(), ms
  \* ---- history of the ledger (observations, not program state) --------
  notifs,           \* notification built for each entry of violations
  shown,            \* positions of violations whose notification was rendered
  lastDismiss,      \* severity dismissNotification met, when it was the call made last
  termCalls,        \* onTerminated invocations since Terminated was entered
  disturbed,        \* reset() or unmount happened since the terminal strike
  \* ---- face monitor (useFaceMonitor) ---------------------------------
  isActive,         \* prop isActive of the monitor, as of the last render
  currentDetection, \* useState<FaceDetectionResult | null>(null)
  cameraTrackActive,\* useState(true)
  detectionEnabled, \* useState(true)
  tracker,          \* stateTracker: kind -> [startTime, lastFiredTime]
  stopDetectionRef, \* useRef: interval the kept cleanup clears, 0 for null
  errorCountRef,    \* useRef(0)
  intervals,        \* running setInterval(detect) timers, by id
  pendingStarts,    \* startContinuousDetection calls still awaiting the model
  trackLive,        \* the camera track is live and enabled
  \* ---- history of the face monitor ------------------------------------
  lastEmit,         \* kind -> time of its last violation in this activation
  lastFire,         \* timed kind -> time of its last violation in any activation
  tooSoon,          \* kinds emitted twice within COOLDOWN_MS in one activation
  emittedInactive,  \* a violation was delivered while isActive was false
  unavailable,      \* "detection unavailable" violations emitted
  \* ---- useBrowserGuard --------------------------------------------------
  guardActive,      \* the isActive option of the browser guard
  onActionBlocked,  \* the notice callback is wired
  lastViolationTime,\* useRef<number>(0)
  hasSeenTabWarning,\* useRef<boolean>(false)
  \* ---- history of the browser guard ------------------------------------
  guardOut,         \* what the last browser event was answered with
  hides,            \* document-hidden events of this activation (2: two or more)
  lastTab,          \* time of the last TAB_SWITCH violation of this activation
  suppressed,       \* the last hidden event of this activation fell in the cooldown
  \* ---- persistence sink of the facade ------------------------------------
  onViolationLogged,\* the onViolationLogged option is wired
  sink,             \* the violations onViolationLogged was called with, in order
  logPending,       \* positions in sink of the calls not settled yet
  consoleErrors,    \* failures of log calls written to the console
  \* ---- POST /api/interview/[interview_id]/violations ----------------------
  kv,               \* the key-value store: candidate id -> candidate record
  request,          \* the body of the last POST
  response,         \* the answer to the last POST
  \* ---- db.ts accessors in progress, the status endpoint, the terminated page
  inflight,         \* call id -> the accessor call, its await position and what it read
  patch,            \* the answer to the last PATCH of the status endpoint
  page              \* TerminatedPage: position of initialize() and the status it fetched

ledgerVars == <<maxStrikes, strikes, violations, notification, isTerminated,
                terminationRef, timers, pendingUpdates, mounted,
                notifs, shown, lastDismiss, termCalls, disturbed>>

faceVars == <<isActive, currentDetection, cameraTrackActive, detectionEnabled,
              tracker, stopDetectionRef, errorCountRef, intervals, pendingStarts,
              trackLive, lastEmit, lastFire, tooSoon, emittedInactive, unavailable>>

guardVars == <<guardActive, onActionBlocked, lastViolationTime, hasSeenTabWarning,
               guardOut, hides, lastTab, suppressed>>

\* everything outside the strike ledger and the face monitor
sinkVars == <<onViolationLogged, sink, logPending, consoleErrors>>

apiVars == <<kv, request, response, inflight, patch, page>>

sideVars == <<guardVars, sinkVars, apiVars>>

vars == <<ledgerVars, faceVars, sideVars, now>>

(***************************************************************************)
(* Bounds of the model                                                     *)
(***************************************************************************)
MaxStrikesOption == 3      \* maxStrikes is drawn from 2..MaxStrikesOption
MaxQueue == 2              \* setter-calling callbacks between two renders
FaceTicks == 3             \* clock horizon of the face monitor, in long steps
MaxStarts == 2             \* startContinuousDetection calls pending at once
MaxIntervals == 2          \* detection intervals running at once
MaxErrors == 6             \* errorCountRef is followed up to this count
LedgerTicks == 2           \* clock ticks explored for the ledger
MaxStored == 1             \* violations stored per candidate
MaxCalls == 3              \* accessor calls of db.ts per run
GuardTicks == 5            \* clock horizon of the browser guard, in long steps
NoFaceTicks == 8           \* clock horizon of the NO_FACE hysteresis, in long steps
KindsTicks == 5            \* clock horizon of the three-kinds session, in short steps
PoseTicks == 6             \* clock horizon of the pose hysteresis, in short steps

(***************************************************************************)
(* Program constants                                                       *)
(***************************************************************************)
TERMINATION_DELAY_MS == 3000
TAB_SWITCH_COOLDOWN_MS == 7500
COOLDOWN_MS == 7500
NO_FACE_THRESHOLD == 10000
LOOKING_AWAY_THRESHOLD == 2000
MULTIPLE_FACES_THRESHOLD == 0
CAMERA_OFF_THRESHOLD == 0
MAX_DETECTION_ERRORS == 5

LedgerTickMs == TERMINATION_DELAY_MS \div 2   \* step of the ledger clock: half the delay

\* Date.now() at mount: later than any cooldown measured from time 0
StartNow == 2 * COOLDOWN_MS

ViolationTypes == {"NO_FACE", "MULTIPLE_FACES", "LOOKING_AWAY", "CAMERA_OFF", "TAB_SWITCH"}

\* the kinds the ledger is driven with (one browser kind, one face kind)
LedgerKinds == {"TAB_SWITCH", "CAMERA_OFF"}

VIOLATION_TITLES(type) ==
  CASE type = "TAB_SWITCH"     -> "Please stay in this window"
    [] type = "NO_FACE"        -> "Please ensure you're visible"
    [] type = "MULTIPLE_FACES" -> "Multiple people detected"
    [] type = "LOOKING_AWAY"   -> "Please stay focused on the screen"
    [] type = "CAMERA_OFF"     -> "Camera connection issue"

NoViolation == [type |-> "none", timestamp |-> 0, message |-> "none"]

NoNotification ==
  [severity |-> "none", title |-> "none", body |-> "none", message |-> "none",
   remaining |-> 0, dismissible |-> FALSE, autoDismissMs |-> 0]

Min(a, b) == IF a <= b THEN a ELSE b

(***************************************************************************)
(* buildNotification: severity, title, body and behaviour of the           *)
(* notification of a violation that produced the count currentStrikes.     *)
(* The body is kept as its template, the violation's message and the       *)
(* number of warnings remaining that a warning body prints.                *)
(***************************************************************************)
BuildNotificationLateFinal(violation, currentStrikes, max) ==
  LET isTerminal     == currentStrikes > max
      isFinalWarning == currentStrikes = max
      severity == IF isTerminal THEN "terminal"
                  ELSE IF isFinalWarning THEN "final" ELSE "warning"
      body == IF isTerminal THEN "Your interview session has ended."
              ELSE IF isFinalWarning THEN "FINAL WARNING"
              ELSE "warnings remaining"
      remaining == IF isTerminal \/ isFinalWarning THEN 0 ELSE max - currentStrikes
  IN [severity |-> severity,
      title |-> VIOLATION_TITLES(violation.type),
      body |-> body,
      message |-> violation.message,
      remaining |-> remaining,
      dismissible |-> ~isTerminal,
      autoDismissMs |-> 0]

BuildNotification(violation, currentStrikes, max) ==
  LET isTerminal     == currentStrikes >= max
      isFinalWarning == currentStrikes = max - 1
      severity == IF isTerminal THEN "terminal"
                  ELSE IF isFinalWarning THEN "final" ELSE "warning"
      body == IF isTerminal THEN "Your interview session has ended."
              ELSE IF isFinalWarning THEN "FINAL WARNING"
              ELSE "warnings remaining"
      remaining == IF isTerminal \/ isFinalWarning THEN 0 ELSE max - currentStrikes
  IN [severity |-> severity,
      title |-> VIOLATION_TITLES(violation.type),
      body |-> body,
      message |-> violation.message,
      remaining |-> remaining,
      dismissible |-> ~isTerminal,
      autoDismissMs |-> 0]

(***************************************************************************)
(* Timers (setTimeout / clearTimeout)                                      *)
(***************************************************************************)
NewTimerId(ts) ==
  CHOOSE i \in 1..(Cardinality(ts) + 1) :
    /\ \A t \in ts : t.id # i
    /\ \A j \in 1..(i - 1) : \E t \in ts : t.id = j

ClearTimeout(ts, ref) == {t \in ts : t.id # ref}

\* addStrike, "Handle termination": clear the timer the ref holds, then
\* schedule onTerminated after TERMINATION_DELAY_MS and keep its id in the ref
ScheduleTerminationNoClear(ts, ref) ==
  LET id == NewTimerId(ts)
  IN [timers |-> ts \cup {[id |-> id, due |-> now + TERMINATION_DELAY_MS]},
      ref |-> id]

ScheduleTermination(ts, ref) ==
  LET cleared == IF ref # 0 THEN ClearTimeout(ts, ref) ELSE ts
      id == NewTimerId(cleared)
  IN [timers |-> cleared \cup {[id |-> id, due |-> now + TERMINATION_DELAY_MS]},
      ref |-> id]

(***************************************************************************)
(* The updater function addStrike passes to setStrikes.  React runs it at  *)
(* the next render, on the count left by the updates queued before it; its *)
(* calls of setNotification and setIsTerminated are queued behind the      *)
(* calls already dispatched, and its timer is created when it runs.        *)
(* acc: the strikes hook's value so far and what the updaters did.         *)
(***************************************************************************)
\* an updater that stops counting at maxStrikes
StrikesUpdaterCapped(acc, violation) ==
  IF acc.strikes >= maxStrikes THEN acc ELSE [acc EXCEPT !.strikes = @ + 1]

StrikesUpdater(acc, violation) ==
  LET newStrikes == acc.strikes + 1
      isTerminal == newStrikes >= maxStrikes
      notif      == BuildNotification(violation, newStrikes, maxStrikes)
      sched      == ScheduleTermination(acc.timers, acc.ref)
  IN [acc EXCEPT
        !.strikes = newStrikes,
        !.setNotification = Append(@, notif),
        !.setIsTerminated = IF isTerminal THEN Append(@, TRUE) ELSE @,
        !.timers = IF isTerminal THEN sched.timers ELSE @,
        !.ref = IF isTerminal THEN sched.ref ELSE @,
        !.notifs = Append(@, notif),
        !.termCalls = IF isTerminal THEN 0 ELSE @,
        !.disturbed = IF isTerminal THEN FALSE ELSE @]

RECURSIVE ReduceStrikes(_, _)
ReduceStrikes(q, acc) ==
  IF q = <<>> THEN acc
  ELSE LET u == Head(q)
       IN ReduceStrikes(Tail(q),
            CASE u.op = "addStrike" -> StrikesUpdater(acc, u.violation)
              [] u.op = "reset"     -> [acc EXCEPT !.strikes = 0, !.notifs = <<>>,
                                                   !.disturbed = TRUE]
              [] OTHER              -> acc)

\* a log that puts the newest entry first
RECURSIVE ReduceViolationsNewestFirst(_, _)
ReduceViolationsNewestFirst(q, vs) ==
  IF q = <<>> THEN vs
  ELSE LET u == Head(q)
       IN ReduceViolationsNewestFirst(Tail(q),
            CASE u.op = "addStrike" -> <<u.violation>> \o vs
              [] u.op = "reset"     -> <<>>
              [] OTHER              -> vs)

\* the violations hook: setViolations(prev => [...prev, violation]) and
\* setViolations([]) in dispatch order
RECURSIVE ReduceViolations(_, _)
ReduceViolations(q, vs) ==
  IF q = <<>> THEN vs
  ELSE LET u == Head(q)
       IN ReduceViolations(Tail(q),
            CASE u.op = "addStrike" -> Append(vs, u.violation)
              [] u.op = "reset"     -> <<>>
              [] OTHER              -> vs)

\* setNotification(null) calls dispatched by dismissNotification and reset
RECURSIVE DispatchedNotification(_)
DispatchedNotification(q) ==
  IF q = <<>> THEN <<>>
  ELSE (IF Head(q).op \in {"dismiss", "reset"} THEN <<NoNotification>> ELSE <<>>)
       \o DispatchedNotification(Tail(q))

\* setIsTerminated(false) calls dispatched by reset
RECURSIVE DispatchedIsTerminated(_)
DispatchedIsTerminated(q) ==
  IF q = <<>> THEN <<>>
  ELSE (IF Head(q).op = "reset" THEN <<FALSE>> ELSE <<>>)
       \o DispatchedIsTerminated(Tail(q))

\* a plain-value hook takes the value set last, or keeps its value
LastOr(sets, old) == IF sets = <<>> THEN old ELSE sets[Len(sets)]

HasOp(q, op) == \E i \in 1..Len(q) : q[i].op = op

LastIndexOf(q, op) ==
  IF HasOp(q, op) THEN CHOOSE i \in 1..Len(q) :
                         q[i].op = op /\ \A j \in (i + 1)..Len(q) : q[j].op # op
  ELSE 0

(***************************************************************************)
(* Strike ledger operations                                                *)
(***************************************************************************)
\* an addStrike with one cooldown for all kinds
AddStrikeSharedCooldown(violation) ==
  IF \/ isTerminated
     \/ /\ violations # <<>>
        /\ violation.timestamp - violations[Len(violations)].timestamp < COOLDOWN_MS
  THEN pendingUpdates
  ELSE Append(pendingUpdates, [op |-> "addStrike", violation |-> violation])

\* addStrike: no-op when the captured isTerminated is true; otherwise it
\* queues the append to the log and the strikes updater
AddStrike(violation) ==
  IF isTerminated THEN pendingUpdates
  ELSE Append(pendingUpdates, [op |-> "addStrike", violation |-> violation])

Message(type) == type

\* the end of handleViolation: onViolationLogged(violation), when wired, not
\* awaited
LogViolationAlways(called, violation) ==
  /\ sink' = IF onViolationLogged THEN Append(sink, violation) ELSE sink
  /\ logPending' = IF onViolationLogged
                   THEN logPending \cup {Len(sink) + 1} ELSE logPending
  /\ UNCHANGED <<onViolationLogged, consoleErrors>>

LogViolation(called, violation) ==
  /\ sink' = IF called /\ onViolationLogged THEN Append(sink, violation) ELSE sink
  /\ logPending' = IF called /\ onViolationLogged
                   THEN logPending \cup {Len(sink) + 1} ELSE logPending
  /\ UNCHANGED <<onViolationLogged, consoleErrors>>

\* facade handleViolation(type, message): no-op when the captured
\* isTerminated is true, else the record is built and handed to addStrike
HandleViolation(type) ==
  /\ mounted
  /\ Len(pendingUpdates) < MaxQueue
  /\ IF isTerminated
     THEN pendingUpdates' = pendingUpdates
     ELSE pendingUpdates' =
            AddStrike([type |-> type, timestamp |-> now, message |-> Message(type)])
  /\ LogViolation(~isTerminated,
                  [type |-> type, timestamp |-> now, message |-> Message(type)])
  /\ lastDismiss' = "no"
  /\ UNCHANGED <<maxStrikes, strikes, violations, notification, isTerminated,
                 terminationRef, timers, mounted, now, notifs, shown,
                 termCalls, disturbed>>
  /\ UNCHANGED <<faceVars, guardVars, apiVars>>

\* dismissNotification: only a dismissible notification is cleared
DismissWarningsOnly ==
  /\ mounted
  /\ Len(pendingUpdates) < MaxQueue
  /\ lastDismiss' = notification.severity
  /\ pendingUpdates' =
       IF notification.severity = "warning"
       THEN Append(pendingUpdates, [op |-> "dismiss", violation |-> NoViolation])
       ELSE pendingUpdates
  /\ UNCHANGED <<maxStrikes, strikes, violations, notification, isTerminated,
                 terminationRef, timers, mounted, now, notifs, shown,
                 termCalls, disturbed>>
  /\ UNCHANGED <<faceVars, sideVars>>

DismissAnything ==
  /\ mounted
  /\ Len(pendingUpdates) < MaxQueue
  /\ lastDismiss' = notification.severity
  /\ pendingUpdates' =
       Append(pendingUpdates, [op |-> "dismiss", violation |-> NoViolation])
  /\ UNCHANGED <<maxStrikes, strikes, violations, notification, isTerminated,
                 terminationRef, timers, mounted, now, notifs, shown,
                 termCalls, disturbed>>
  /\ UNCHANGED <<faceVars, sideVars>>

DismissNotification ==
  /\ mounted
  /\ Len(pendingUpdates) < MaxQueue
  /\ lastDismiss' = notification.severity
  /\ pendingUpdates' =
       IF notification.dismissible
       THEN Append(pendingUpdates, [op |-> "dismiss", violation |-> NoViolation])
       ELSE pendingUpdates
  /\ UNCHANGED <<maxStrikes, strikes, violations, notification, isTerminated,
                 terminationRef, timers, mounted, now, notifs, shown,
                 termCalls, disturbed>>
  /\ UNCHANGED <<faceVars, sideVars>>

\* reset: the timer is cleared at once, the four setters are queued
Reset ==
  /\ mounted
  /\ Len(pendingUpdates) < MaxQueue
  /\ timers' = IF terminationRef # 0 THEN ClearTimeout(timers, terminationRef) ELSE timers
  /\ terminationRef' = 0
  /\ pendingUpdates' = Append(pendingUpdates, [op |-> "reset", violation |-> NoViolation])
  /\ disturbed' = TRUE
  /\ lastDismiss' = "no"
  /\ UNCHANGED <<maxStrikes, strikes, violations, notification, isTerminated,
                 mounted, now, notifs, shown, termCalls>>
  /\ UNCHANGED <<faceVars, sideVars>>

\* React renders: every hook runs the updates queued for it
Render ==
  /\ mounted
  /\ pendingUpdates # <<>>
  /\ LET q == pendingUpdates
         r == ReduceStrikes(q,
                [strikes |-> strikes, setNotification |-> <<>>,
                 setIsTerminated |-> <<>>, timers |-> timers,
                 ref |-> terminationRef, notifs |-> notifs,
                 termCalls |-> termCalls, disturbed |-> disturbed])
         vs == ReduceViolations(q, violations)
         lastAdd == LastIndexOf(q, "addStrike")
         lastReset == LastIndexOf(q, "reset")
     IN /\ strikes' = r.strikes
        /\ violations' = vs
        /\ notification' =
             LastOr(DispatchedNotification(q) \o r.setNotification, notification)
        /\ isTerminated' =
             LastOr(DispatchedIsTerminated(q) \o r.setIsTerminated, isTerminated)
        /\ timers' = r.timers
        /\ terminationRef' = r.ref
        /\ notifs' = r.notifs
        /\ termCalls' = r.termCalls
        /\ disturbed' = r.disturbed
        /\ shown' = (IF lastReset > 0 THEN {} ELSE shown)
                      \cup (IF lastAdd > lastReset THEN {Len(vs)} ELSE {})
        /\ lastDismiss' = "no"
  /\ pendingUpdates' = <<>>
  /\ UNCHANGED <<maxStrikes, mounted, now>>
  /\ UNCHANGED <<faceVars, sideVars>>

\* the termination timer fires: onTerminated(); terminationRef.current = null
TimerFire ==
  /\ \E t \in timers :
       /\ t.due <= now
       /\ timers' = timers \ {t}
  /\ terminationRef' = 0
  /\ termCalls' = termCalls + 1
  /\ UNCHANGED <<maxStrikes, strikes, violations, notification, isTerminated,
                 pendingUpdates, mounted, now, notifs, shown, lastDismiss,
                 disturbed>>
  /\ UNCHANGED <<faceVars, sideVars>>

\* unmount: the cleanup effect clears the timer the ref holds
Unmount ==
  /\ mounted
  /\ mounted' = FALSE
  /\ timers' = IF terminationRef # 0 THEN ClearTimeout(timers, terminationRef) ELSE timers
  /\ disturbed' = TRUE
  /\ UNCHANGED <<maxStrikes, strikes, violations, notification, isTerminated,
                 terminationRef, pendingUpdates, now, notifs, shown,
                 lastDismiss, termCalls>>
  /\ UNCHANGED <<faceVars, sideVars>>

\* time passes, to the next timer's due time at most; a due timer runs
\* first, and React renders the queued updates before the clock moves on
LedgerTick ==
  /\ mounted
  /\ pendingUpdates = <<>>
  /\ \A t \in timers : t.due > now
  /\ now < StartNow + LedgerTicks * LedgerTickMs
  /\ now' = IF timers = {} THEN now + LedgerTickMs
            ELSE Min(now + LedgerTickMs,
                     (CHOOSE t \in timers : \A u \in timers : t.due <= u.due).due)
  /\ UNCHANGED <<ledgerVars, faceVars, sideVars>>

(***************************************************************************)
(* Face monitor: ViolationStateTracker                                     *)
(***************************************************************************)
FaceViolations == {"NO_FACE", "MULTIPLE_FACES", "LOOKING_AWAY", "CAMERA_OFF"}

HeadPoses == {"CENTER", "LOOKING_UP", "LOOKING_DOWN", "LOOKING_LEFT", "LOOKING_RIGHT"}

NullTime == 0 - 1

NoDetection == [faceCount |-> 0 - 1, headPose |-> "none"]

\* HEAD_POSE_THRESHOLDS, in hundredths
YAW_LEFT == 25
YAW_RIGHT == 75
PITCH_UP == 0 - 10
PITCH_DOWN == 15

\* nose positions the landmarks give, in hundredths: noseDrop (nose below
\* the ears' height) and noseRelX (nose between the ears), on and around
\* the thresholds
PitchSamples == {0 - 20, 0 - 10, 0, 15, 20}
YawSamples == {10, 25, 50, 75, 90}

\* analyzeHeadPose with the yaw tested before the pitch
AnalyzeHeadPoseYawFirst(noseDrop, noseRelX) ==
  IF noseRelX < YAW_LEFT THEN "LOOKING_LEFT"
  ELSE IF noseRelX > YAW_RIGHT THEN "LOOKING_RIGHT"
  ELSE IF noseDrop < PITCH_UP THEN "LOOKING_UP"
  ELSE IF noseDrop > PITCH_DOWN THEN "LOOKING_DOWN"
  ELSE "CENTER"

AnalyzeHeadPose(noseDrop, noseRelX) ==
  IF noseDrop < PITCH_UP THEN "LOOKING_UP"
  ELSE IF noseDrop > PITCH_DOWN THEN "LOOKING_DOWN"
  ELSE IF noseRelX < YAW_LEFT THEN "LOOKING_LEFT"
  ELSE IF noseRelX > YAW_RIGHT THEN "LOOKING_RIGHT"
  ELSE "CENTER"

\* results detectFaces delivers: no face, one face in the pose its
\* landmarks give, two faces (numFaces: 2); headPose is that of faces[0]
DetectionResults ==
  {[faceCount |-> 0, headPose |-> "none"]}
    \cup {[faceCount |-> 1, headPose |-> AnalyzeHeadPose(d, x)] :
            d \in PitchSamples, x \in YawSamples}
    \cup {[faceCount |-> 2, headPose |-> "CENTER"]}

TrackerInit == [t \in FaceViolations |-> [startTime |-> NullTime, lastFiredTime |-> 0]]

StartTiming(tr, type) ==
  IF tr[type].startTime = NullTime THEN [tr EXCEPT ![type].startTime = now] ELSE tr

\* a resetTiming that leaves the start time
ResetTimingKept(tr, type) == tr

ResetTiming(tr, type) == [tr EXCEPT ![type].startTime = NullTime]

GetDuration(tr, type) ==
  IF tr[type].startTime = NullTime THEN 0 ELSE now - tr[type].startTime

\* shouldFire without its cooldown test
ShouldFireNoCooldown(tr, type, thresholdMs) ==
  GetDuration(tr, type) >= thresholdMs

ShouldFire(tr, type, thresholdMs) ==
  /\ GetDuration(tr, type) >= thresholdMs
  /\ now - tr[type].lastFiredTime >= COOLDOWN_MS

\* a markFired that also ends the timing
MarkFiredEndsTiming(tr, type) ==
  [tr EXCEPT ![type].lastFiredTime = now, ![type].startTime = NullTime]

MarkFired(tr, type) == [tr EXCEPT ![type].lastFiredTime = now]

\* a reset that leaves the tracker as it is
TrackerKept(tr) == tr

TrackerReset(tr) == [t \in DOMAIN tr |-> [startTime |-> NullTime, lastFiredTime |-> 0]]

(***************************************************************************)
(* Face monitor: the hook.  fm is the monitor's state while a handler and  *)
(* the render and effects it causes run; out lists the violations handed   *)
(* to onViolation, with the path that emitted each.                        *)
(***************************************************************************)
FaceState ==
  [currentDetection |-> currentDetection, cameraTrackActive |-> cameraTrackActive,
   detectionEnabled |-> detectionEnabled, tracker |-> tracker,
   stopDetectionRef |-> stopDetectionRef, errorCountRef |-> errorCountRef,
   intervals |-> intervals, pendingStarts |-> pendingStarts, out |-> <<>>]

\* fireViolation: markFired, then onViolation
FireViolation(fm, type, path) ==
  [fm EXCEPT !.tracker = MarkFired(@, type),
             !.out = Append(@, [type |-> type, path |-> path])]

\* stopDetectionRef.current?.(); stopDetectionRef.current = null
StopDetection(fm) ==
  [fm EXCEPT !.intervals = @ \ {fm.stopDetectionRef}, !.stopDetectionRef = 0]

\* effect 1, body: stop and reset the trackers when not to run, else call
\* startContinuousDetection, whose interval starts once the model is ready
Effect1(fm, active) ==
  IF ~active \/ ~fm.detectionEnabled
  THEN [StopDetection(fm) EXCEPT !.tracker = TrackerReset(@)]
  ELSE [fm EXCEPT !.pendingStarts = @ + 1]

\* effect 1, cleanup returned by a run that started detection
Effect1Cleanup(fm, wasRunning) == IF wasRunning THEN StopDetection(fm) ELSE fm

\* effect 2, updateCameraStatus: on mount of the effect and on the track's
\* ended and mute events
UpdateCameraStatus(fm, live) ==
  LET f1 == [fm EXCEPT !.cameraTrackActive = live]
  IN IF ~live
     THEN IF ShouldFire(f1.tracker, "CAMERA_OFF", CAMERA_OFF_THRESHOLD)
          THEN FireViolation(f1, "CAMERA_OFF", "camera")
          ELSE f1
     ELSE [f1 EXCEPT !.tracker = ResetTiming(@, "CAMERA_OFF")]

\* effect 3: the three checks on the current detection; trackActive is the
\* cameraTrackActive the render of this run saw
Effect3(fm, active, trackActive) ==
  IF ~active \/ fm.currentDetection = NoDetection \/ ~fm.detectionEnabled
  THEN fm
  ELSE
    LET faceCount == fm.currentDetection.faceCount
        headPose  == fm.currentDetection.headPose
        \* CHECK 1: no face detected
        c1 == IF faceCount = 0 /\ trackActive
              THEN LET t == [fm EXCEPT !.tracker = StartTiming(@, "NO_FACE")]
                   IN IF ShouldFire(t.tracker, "NO_FACE", NO_FACE_THRESHOLD)
                      THEN FireViolation(t, "NO_FACE", "effect3")
                      ELSE t
              ELSE [fm EXCEPT !.tracker = ResetTiming(@, "NO_FACE")]
        \* CHECK 2: multiple faces detected
        c2 == IF faceCount > 1
              THEN LET t == [c1 EXCEPT !.tracker = StartTiming(@, "MULTIPLE_FACES")]
                   IN IF ShouldFire(t.tracker, "MULTIPLE_FACES", MULTIPLE_FACES_THRESHOLD)
                      THEN FireViolation(t, "MULTIPLE_FACES", "effect3")
                      ELSE t
              ELSE [c1 EXCEPT !.tracker = ResetTiming(@, "MULTIPLE_FACES")]
        \* CHECK 3: looking away
        isSuspicious == headPose \in {"LOOKING_DOWN", "LOOKING_LEFT", "LOOKING_RIGHT"}
        c3 == IF faceCount = 1 /\ isSuspicious
              THEN LET t == [c2 EXCEPT !.tracker = StartTiming(@, "LOOKING_AWAY")]
                   IN IF ShouldFire(t.tracker, "LOOKING_AWAY", LOOKING_AWAY_THRESHOLD)
                      THEN FireViolation(t, "LOOKING_AWAY", "effect3")
                      ELSE t
              ELSE [c2 EXCEPT !.tracker = ResetTiming(@, "LOOKING_AWAY")]
    IN c3

\* effect 3 runs with the render's cameraTrackActive, and once more after the
\* render that a changed cameraTrackActive causes
Effect3AfterCamera(fm, active, oldTrackActive) ==
  IF fm.cameraTrackActive # oldTrackActive
  THEN Effect3(fm, active, fm.cameraTrackActive)
  ELSE fm

\* the render after setDetectionEnabled(false): effect 1 runs again when the
\* value changed (cleanup of its last run, then the body)
AfterDetectionDisabled(fm, active, wasEnabled) ==
  IF wasEnabled
  THEN Effect1(Effect1Cleanup(fm, active), active)
  ELSE fm

\* history: the violations a handler emitted, in order
RECURSIVE NoteEmits(_, _, _)
NoteEmits(out, h, active) ==
  IF out = <<>> THEN h
  ELSE LET e == Head(out)
       IN NoteEmits(Tail(out),
            [h EXCEPT
               !.tooSoon = IF /\ h.lastEmit[e.type] # NullTime
                              /\ now - h.lastEmit[e.type] < COOLDOWN_MS
                           THEN @ \cup {e.type} ELSE @,
               !.lastEmit = [@ EXCEPT ![e.type] = now],
               !.lastFire = IF e.type \in {"LOOKING_AWAY", "NO_FACE"}
                            THEN [@ EXCEPT ![e.type] = now] ELSE @,
               !.emittedInactive = (@ \/ ~active),
               !.unavailable = IF e.path = "onError" THEN Min(@ + 1, 2) ELSE @],
            active)

\* the handler's result becomes the monitor's state
FaceCommit(fm, active, newActivation) ==
  LET h == NoteEmits(fm.out,
             [lastEmit |-> IF newActivation
                           THEN [t \in FaceViolations |-> NullTime] ELSE lastEmit,
              lastFire |-> lastFire,
              tooSoon |-> tooSoon, emittedInactive |-> emittedInactive,
              unavailable |-> unavailable], active)
  IN /\ currentDetection' = fm.currentDetection
     /\ cameraTrackActive' = fm.cameraTrackActive
     /\ detectionEnabled' = fm.detectionEnabled
     /\ tracker' = fm.tracker
     /\ stopDetectionRef' = fm.stopDetectionRef
     /\ errorCountRef' = fm.errorCountRef
     /\ intervals' = fm.intervals
     /\ pendingStarts' = fm.pendingStarts
     /\ lastEmit' = h.lastEmit
     /\ lastFire' = h.lastFire
     /\ tooSoon' = h.tooSoon
     /\ emittedInactive' = h.emittedInactive
     /\ unavailable' = h.unavailable

\* the isActive prop changes: cleanups of effects 1 and 2, then the three
\* effects in order
SetActive(b) ==
  /\ b # isActive
  /\ b => pendingStarts < MaxStarts
  /\ isActive' = b
  /\ trackLive' = trackLive
  /\ LET e1 == Effect1(Effect1Cleanup(FaceState, isActive /\ detectionEnabled), b)
         e2 == IF b THEN UpdateCameraStatus(e1, trackLive) ELSE e1
         e3 == Effect3(e2, b, cameraTrackActive)
     IN FaceCommit(Effect3AfterCamera(e3, b, cameraTrackActive), b, TRUE)
  /\ UNCHANGED <<ledgerVars, sideVars, now>>

\* startContinuousDetection resolves: the interval starts and its cleanup
\* is kept in stopDetectionRef
NewIntervalId(ids) == CHOOSE i \in 1..(Cardinality(ids) + 1) : i \notin ids

ResolveStart ==
  /\ pendingStarts > 0
  /\ Cardinality(intervals) < MaxIntervals
  /\ LET id == NewIntervalId(intervals)
     IN FaceCommit([FaceState EXCEPT !.pendingStarts = @ - 1,
                                     !.intervals = @ \cup {id},
                                     !.stopDetectionRef = id], isActive, FALSE)
  /\ UNCHANGED <<isActive, trackLive, ledgerVars, sideVars, now>>

\* startContinuousDetection rejects: setDetectionEnabled(false)
RejectStart ==
  /\ pendingStarts > 0
  /\ LET f == [FaceState EXCEPT !.pendingStarts = @ - 1, !.detectionEnabled = FALSE]
     IN FaceCommit(AfterDetectionDisabled(f, isActive, detectionEnabled), isActive, FALSE)
  /\ UNCHANGED <<isActive, trackLive, ledgerVars, sideVars, now>>

\* a running interval's detect delivers a result: onDetection, then the
\* render runs effect 3 on it
Sample(result) ==
  /\ intervals # {}
  /\ LET f == [FaceState EXCEPT !.currentDetection = result, !.errorCountRef = 0]
     IN FaceCommit(Effect3(f, isActive, cameraTrackActive), isActive, FALSE)
  /\ UNCHANGED <<isActive, trackLive, ledgerVars, sideVars, now>>

\* a running interval's detect throws: onError
SampleError ==
  /\ intervals # {}
  /\ errorCountRef < MaxErrors
  /\ LET f == [FaceState EXCEPT !.errorCountRef = @ + 1]
         g == IF f.errorCountRef >= MAX_DETECTION_ERRORS
              THEN AfterDetectionDisabled(
                     FireViolation([f EXCEPT !.detectionEnabled = FALSE],
                                   "CAMERA_OFF", "onError"),
                     isActive, detectionEnabled)
              ELSE f
     IN FaceCommit(g, isActive, FALSE)
  /\ UNCHANGED <<isActive, trackLive, ledgerVars, sideVars, now>>

\* the camera track ends or is muted; the listeners of effect 2 are
\* registered while the monitor is active
TrackOff ==
  /\ trackLive' = FALSE
  /\ IF isActive
     THEN LET u == UpdateCameraStatus(FaceState, FALSE)
          IN FaceCommit(Effect3AfterCamera(u, isActive, cameraTrackActive), isActive, FALSE)
     ELSE FaceCommit(FaceState, isActive, FALSE)
  /\ UNCHANGED <<isActive, ledgerVars, sideVars, now>>

\* the track is unmuted or re-enabled: no listener is registered for that
TrackOn ==
  /\ ~trackLive
  /\ trackLive' = TRUE
  /\ UNCHANGED <<isActive, currentDetection, cameraTrackActive, detectionEnabled,
                 tracker, stopDetectionRef, errorCountRef, intervals, pendingStarts,
                 lastEmit, lastFire, tooSoon, emittedInactive, unavailable,
                 ledgerVars, sideVars, now>>

\* time passes between events, a third of the cooldown at a time
FaceTickMs == COOLDOWN_MS \div 3

FaceTick ==
  /\ now + FaceTickMs <= StartNow + FaceTicks * FaceTickMs
  /\ now' = now + FaceTickMs
  /\ UNCHANGED <<ledgerVars, faceVars, sideVars>>

FaceInit ==
  /\ isActive = FALSE
  /\ currentDetection = NoDetection
  /\ cameraTrackActive = TRUE
  /\ detectionEnabled = TRUE
  /\ tracker = TrackerInit
  /\ stopDetectionRef = 0
  /\ errorCountRef = 0
  /\ intervals = {}
  /\ pendingStarts = 0
  /\ trackLive = TRUE
  /\ lastEmit = [t \in FaceViolations |-> NullTime]
  /\ lastFire = [t \in FaceViolations |-> NullTime]
  /\ tooSoon = {}
  /\ emittedInactive = FALSE
  /\ unavailable = 0

(***************************************************************************)
(* Browser guard                                                           *)
(***************************************************************************)
BrowserActions == {"TAB_SWITCH_GRACE", "COPY_BLOCKED", "PASTE_BLOCKED", "CUT_BLOCKED"}

ClipboardEvents == {"copy", "cut", "paste"}

\* keys pressed: the three shortcut letters, one of them upper-case (with
\* Shift or CapsLock), and another key
Keys == {"c", "C", "v", "x", "a"}

\* a comparison of the key as typed
KeyAsTyped(key) == key

ToLowerCase(key) == IF key = "C" THEN "c" ELSE key

NoOut == [prevented |-> FALSE, notice |-> "none", violation |-> FALSE]

\* a guard that never delivers a notice
NoticeDropped(action) == "none"

\* onActionBlocked(action, message), when wired
Notice(action) == IF onActionBlocked THEN action ELSE "none"

\* a listener effect whose inactive branch leaves the refs alone
GuardEffectKeepsRefs(active) ==
  /\ hasSeenTabWarning' = hasSeenTabWarning
  /\ lastViolationTime' = lastViolationTime

\* the listener effect: the inactive branch clears both refs, the active one
\* registers the listeners
GuardEffect(active) ==
  /\ hasSeenTabWarning' = IF active THEN hasSeenTabWarning ELSE FALSE
  /\ lastViolationTime' = IF active THEN lastViolationTime ELSE 0

\* the isActive option changes
GuardSetActive(b) ==
  /\ b # guardActive
  /\ guardActive' = b
  /\ GuardEffect(b)
  /\ guardOut' = NoOut
  /\ hides' = 0
  /\ lastTab' = NullTime
  /\ suppressed' = FALSE
  /\ UNCHANGED <<onActionBlocked, ledgerVars, faceVars, sinkVars, apiVars, now>>

\* the notice callback changes: the handlers are new functions and the
\* effect runs again with isActive as it was
Rewire ==
  /\ onActionBlocked' = ~onActionBlocked
  /\ GuardEffect(guardActive)
  /\ guardOut' = NoOut
  /\ UNCHANGED <<guardActive, hides, lastTab, suppressed, ledgerVars, faceVars, sinkVars, apiVars, now>>

\* triggerViolation: inside the cooldown nothing happens
TriggerViolationNoCooldown == TRUE

TriggerViolation == now - lastViolationTime >= TAB_SWITCH_COOLDOWN_MS

\* handleVisibilityChange, with onViolation = the facade's handleViolation
VisibilityChange(hidden) ==
  /\ guardActive
  /\ mounted
  /\ Len(pendingUpdates) < MaxQueue
  /\ LET grace == hidden /\ ~hasSeenTabWarning
         fires == hidden /\ hasSeenTabWarning /\ TriggerViolation
     IN /\ hasSeenTabWarning' = (hasSeenTabWarning \/ hidden)
        /\ lastViolationTime' = IF fires THEN now ELSE lastViolationTime
        /\ guardOut' = [prevented |-> FALSE,
                        notice |-> IF grace THEN Notice("TAB_SWITCH_GRACE") ELSE "none",
                        violation |-> fires]
        /\ hides' = IF hidden THEN Min(hides + 1, 2) ELSE hides
        /\ lastTab' = IF fires THEN now ELSE lastTab
        /\ suppressed' = IF hidden THEN (hasSeenTabWarning /\ ~fires) ELSE suppressed
        /\ pendingUpdates' =
             IF fires
             THEN AddStrike([type |-> "TAB_SWITCH", timestamp |-> now,
                             message |-> Message("TAB_SWITCH")])
             ELSE pendingUpdates
        /\ LogViolation(fires /\ ~isTerminated,
                        [type |-> "TAB_SWITCH", timestamp |-> now,
                         message |-> Message("TAB_SWITCH")])
        /\ lastDismiss' = IF fires THEN "no" ELSE lastDismiss
  /\ UNCHANGED <<guardActive, onActionBlocked, maxStrikes, strikes, violations,
                 notification, isTerminated, terminationRef, timers, mounted,
                 notifs, shown, termCalls, disturbed, faceVars, apiVars, now>>

ActionType(type) ==
  IF type = "copy" THEN "COPY_BLOCKED"
  ELSE IF type = "cut" THEN "CUT_BLOCKED"
  ELSE "PASTE_BLOCKED"

\* handleClipboardEvent
ClipboardEvent(type) ==
  /\ guardActive
  /\ guardOut' = [prevented |-> TRUE, notice |-> Notice(ActionType(type)),
                  violation |-> FALSE]
  /\ UNCHANGED <<guardActive, onActionBlocked, lastViolationTime, hasSeenTabWarning,
                 hides, lastTab, suppressed, ledgerVars, faceVars, sinkVars,
                 apiVars, now>>

KeyActionType(key) ==
  IF ToLowerCase(key) = "c" THEN "COPY_BLOCKED"
  ELSE IF ToLowerCase(key) = "x" THEN "CUT_BLOCKED"
  ELSE "PASTE_BLOCKED"

\* handleKeyDown
KeyDown(key, metaKey, ctrlKey, isMac) ==
  /\ guardActive
  /\ LET modifier == IF isMac THEN metaKey ELSE ctrlKey
     IN guardOut' =
          IF modifier /\ ToLowerCase(key) \in {"c", "v", "x"}
          THEN [prevented |-> TRUE, notice |-> Notice(KeyActionType(key)),
                violation |-> FALSE]
          ELSE NoOut
  /\ UNCHANGED <<guardActive, onActionBlocked, lastViolationTime, hasSeenTabWarning,
                 hides, lastTab, suppressed, ledgerVars, faceVars, sinkVars,
                 apiVars, now>>

\* time passes for the browser guard, a third of the cooldown at a time and
\* to the next timer's due time at most
GuardTick ==
  /\ mounted
  /\ pendingUpdates = <<>>
  /\ \A t \in timers : t.due > now
  /\ now < StartNow + GuardTicks * FaceTickMs
  /\ now' = IF timers = {} THEN now + FaceTickMs
            ELSE Min(now + FaceTickMs,
                     (CHOOSE t \in timers : \A u \in timers : t.due <= u.due).due)
  /\ UNCHANGED <<ledgerVars, faceVars, sideVars>>

GuardInit ==
  /\ guardActive = FALSE
  /\ onActionBlocked = FALSE
  /\ lastViolationTime = 0
  /\ hasSeenTabWarning = FALSE
  /\ guardOut = NoOut
  /\ hides = 0
  /\ lastTab = NullTime
  /\ suppressed = FALSE

(***************************************************************************)
(* Persistence sink: the log calls in flight                               *)
(***************************************************************************)
\* a failed log call that takes the page down
LogRejectUncaught ==
  /\ \E i \in logPending : logPending' = logPending \ {i}
  /\ mounted' = FALSE
  /\ timers' = {}
  /\ UNCHANGED <<maxStrikes, strikes, violations, notification, isTerminated,
                 terminationRef, pendingUpdates, notifs, shown, lastDismiss,
                 termCalls, disturbed, onViolationLogged, sink, consoleErrors,
                 faceVars, guardVars, apiVars, now>>

\* a log call completes
LogResolve ==
  /\ \E i \in logPending : logPending' = logPending \ {i}
  /\ UNCHANGED <<onViolationLogged, sink, consoleErrors, ledgerVars, faceVars,
                 guardVars, apiVars, now>>

\* a log call fails: the page's try/catch, or the facade's .catch, writes
\* the error to the console
LogReject ==
  /\ \E i \in logPending : logPending' = logPending \ {i}
  /\ consoleErrors' = consoleErrors + 1
  /\ UNCHANGED <<onViolationLogged, sink, ledgerVars, faceVars, guardVars, apiVars, now>>

SinkInit ==
  /\ sink = <<>>
  /\ logPending = {}
  /\ consoleErrors = 0

(***************************************************************************)
(* The violations endpoint and the store behind it                         *)
(***************************************************************************)
\* JSON values: a kind and, for strings and numbers, the text
Undefined == [kind |-> "undefined", val |-> ""]

Str(s) == [kind |-> "string", val |-> s]

Num(s) == [kind |-> "number", val |-> s]

\* JavaScript truthiness of a scalar
Truthy(v) ==
  CASE v.kind = "string" -> v.val # ""
    [] v.kind = "number" -> v.val # "0"
    [] OTHER -> FALSE

TypeOf(v) == v.kind

CandidateIds == {"cand1", "ghost"}

NoCandidate == [exists |-> FALSE, status |-> "", recordings |-> <<>>, violations |-> <<>>]

\* the violation values a body can carry: absent, null, a string, or an
\* object whose fields may be absent or ill-typed
ViolationValues ==
  {[kind |-> k, type |-> Undefined, message |-> Undefined,
    timestamp |-> Undefined] : k \in {"undefined", "null", "string"}}
  \cup
  [kind : {"object"},
   type : {Undefined, Str(""), Str("BOGUS")} \cup {Str(t) : t \in ViolationTypes},
   message : {Undefined, Str(""), Str("m")},
   timestamp : {Undefined, Str("1700"), Num("0"), Num("1700")}]

\* the bodies request.json() can return: null, a string, or an object
Bodies ==
  {[kind |-> k, candidate_id |-> Undefined,
    violation |-> [kind |-> "undefined", type |-> Undefined,
                   message |-> Undefined, timestamp |-> Undefined]] :
     k \in {"null", "string"}}
  \cup
  [kind : {"object"},
   candidate_id : {Undefined} \cup {Str(c) : c \in CandidateIds},
   violation : ViolationValues]

NoRequest ==
  [kind |-> "none", candidate_id |-> Undefined,
   violation |-> [kind |-> "undefined", type |-> Undefined,
                  message |-> Undefined, timestamp |-> Undefined]]

validTypes == <<"NO_FACE", "MULTIPLE_FACES", "LOOKING_AWAY", "CAMERA_OFF", "TAB_SWITCH">>

Includes(seq, v) == v.kind = "string" /\ \E i \in 1..Len(seq) : seq[i] = v.val

ErrorResponse(status, error) == [status |-> status, error |-> error]

\* POST up to the call of saveViolation: destructuring the body (which throws
\* on null, caught by the handler's catch) and the four checks; status 0
\* stands for "validation passed"
Validate(body) ==
  IF body.kind = "null"
  THEN ErrorResponse(500, "Failed to save violation")
  ELSE IF ~Truthy(body.candidate_id)
  THEN ErrorResponse(400, "candidate_id is required")
  ELSE IF body.violation.kind \in {"undefined", "null"}
  THEN ErrorResponse(400, "violation data is required")
  ELSE IF \/ ~Truthy(body.violation.type)
          \/ ~Truthy(body.violation.message)
          \/ TypeOf(body.violation.timestamp) # "number"
  THEN ErrorResponse(400, "Invalid violation data. Required: type, message, timestamp")
  ELSE IF ~Includes(validTypes, body.violation.type)
  THEN ErrorResponse(400, "Invalid violation type. Must be one of: NO_FACE, MULTIPLE_FACES, LOOKING_AWAY, CAMERA_OFF, TAB_SWITCH")
  ELSE ErrorResponse(0, "")

\* saveViolation: the candidate's record with the violation pushed
SaveViolation(candidate, violation) ==
  [candidate EXCEPT !.violations = Append(@, violation)]

\* POST
Post(body) ==
  /\ request' = body
  /\ LET checked == Validate(body)
         id == body.candidate_id.val
     IN IF checked.status # 0
        THEN /\ response' = checked
             /\ kv' = kv
        ELSE IF ~kv[id].exists
        THEN /\ response' = ErrorResponse(404, "Candidate not found")
             /\ kv' = kv
        ELSE /\ Len(kv[id].violations) < MaxStored
             /\ kv' = [kv EXCEPT ![id] = SaveViolation(@, body.violation)]
             /\ response' = ErrorResponse(200, "")
  /\ UNCHANGED <<inflight, patch, page>>
  /\ UNCHANGED <<ledgerVars, faceVars, guardVars, sinkVars, now>>

(***************************************************************************)
(* db.ts: the accessors that rewrite a candidate's record.  Each awaits    *)
(* getCandidate, builds the new record from what it read, and awaits       *)
(* kv.set of the whole record; other calls run between the two awaits.     *)
(***************************************************************************)
CallIds == 1..MaxCalls

NoStoredViolation ==
  [kind |-> "undefined", type |-> Undefined, message |-> Undefined,
   timestamp |-> Undefined]

NoRecording == [question_index |-> -1, take |-> 0]

NoCall ==
  [op |-> "none", candidate |-> "", violation |-> NoStoredViolation,
   recording |-> NoRecording, status |-> "", phase |-> "none",
   snapshot |-> NoCandidate]

\* the violations the endpoint stores: two valid ones
StoredViolations ==
  {[kind |-> "object", type |-> Str(t), message |-> Str("m"),
    timestamp |-> Num("1700")] : t \in {"TAB_SWITCH", "NO_FACE"}}

\* the recordings uploaded: a first and a second take of question 0
StoredRecordings == {[question_index |-> 0, take |-> k] : k \in 1..2}

\* saveRecording: the take replaces the stored one of its question or is
\* pushed; status 'registered' becomes 'recording'
SaveRecording(candidate, recording) ==
  LET recordings == candidate.recordings
      existing == {i \in 1..Len(recordings) :
                     recordings[i].question_index = recording.question_index}
      existingIndex == IF existing = {} THEN 0
                       ELSE CHOOSE i \in existing : \A j \in existing : i <= j
  IN [candidate EXCEPT
        !.recordings = IF existingIndex > 0
                       THEN [recordings EXCEPT ![existingIndex] = recording]
                       ELSE Append(recordings, recording),
        !.status = IF candidate.status = "registered" THEN "recording" ELSE @]

\* updateCandidateStatus: { ...candidate, status }
UpdateCandidateStatus(candidate, status) == [candidate EXCEPT !.status = status]

\* the record a call hands to kv.set, built from the record it read
Written(call) ==
  CASE call.op = "saveViolation" -> SaveViolation(call.snapshot, call.violation)
    [] call.op = "saveRecording" -> SaveRecording(call.snapshot, call.recording)
    [] call.op = "updateCandidateStatus" ->
         UpdateCandidateStatus(call.snapshot, call.status)

\* call ids are handed out in order
NextCall ==
  IF \E i \in CallIds : inflight[i].phase = "none"
  THEN CHOOSE i \in CallIds : inflight[i].phase = "none" /\
                              \A j \in CallIds : inflight[j].phase = "none" => i <= j
  ELSE 0

Called(op, candidate, violation, recording, status) ==
  [op |-> op, candidate |-> candidate, violation |-> violation,
   recording |-> recording, status |-> status, phase |-> "called",
   snapshot |-> NoCandidate]

\* the violations endpoint, after its checks, calls saveViolation
CallSaveViolation(violation) ==
  /\ NextCall # 0
  /\ inflight' = [inflight EXCEPT ![NextCall] =
                    Called("saveViolation", "cand1", violation, NoRecording, "")]
  /\ UNCHANGED <<kv, request, response, patch, page>>
  /\ UNCHANGED <<ledgerVars, faceVars, guardVars, sinkVars, now>>

\* the upload endpoint calls saveRecording
CallSaveRecording(recording) ==
  /\ NextCall # 0
  /\ inflight' = [inflight EXCEPT ![NextCall] =
                    Called("saveRecording", "cand1", NoStoredViolation, recording, "")]
  /\ UNCHANGED <<kv, request, response, patch, page>>
  /\ UNCHANGED <<ledgerVars, faceVars, guardVars, sinkVars, now>>

\* await getCandidate(...) of call i resolves: the record as stored now;
\* a missing candidate makes the accessor throw
DbRead(i) ==
  /\ inflight[i].phase = "called"
  /\ inflight' = [inflight EXCEPT
                    ![i].snapshot = kv[inflight[i].candidate],
                    ![i].phase = IF kv[inflight[i].candidate].exists
                                 THEN "read" ELSE "thrown"]
  /\ UNCHANGED <<kv, request, response, patch, page>>
  /\ UNCHANGED <<ledgerVars, faceVars, guardVars, sinkVars, now>>

\* await kv.set(key, {...}) of call i: the whole record is replaced
DbWrite(i) ==
  /\ inflight[i].phase = "read"
  /\ kv' = [kv EXCEPT ![inflight[i].candidate] = Written(inflight[i])]
  /\ inflight' = [inflight EXCEPT ![i].phase = "done"]
  /\ UNCHANGED <<request, response, patch, page>>
  /\ UNCHANGED <<ledgerVars, faceVars, guardVars, sinkVars, now>>

(***************************************************************************)
(* PATCH /api/interview/[interview_id]/candidate/status                    *)
(***************************************************************************)
PatchStatuses == <<"recording", "submitted">>

\* the checks before the store is touched; status 0 stands for "passed"
PatchValidate(candidate_id, status) ==
  IF ~Truthy(candidate_id)
  THEN ErrorResponse(400, "candidate_id is required")
  ELSE IF ~Truthy(status) \/ ~Includes(PatchStatuses, status)
  THEN ErrorResponse(400, "Invalid status. Must be \"recording\" or \"submitted\"")
  ELSE ErrorResponse(0, "")

\* the handler up to its call of updateCandidateStatus, as the change of
\* patch and inflight
PatchRoute(candidate_id, status) ==
  LET checked == PatchValidate(candidate_id, status)
  IN IF checked.status # 0
     THEN /\ patch' = checked
          /\ inflight' = inflight
     ELSE IF ~kv[candidate_id.val].exists
     THEN /\ patch' = ErrorResponse(404, "Candidate not found")
          /\ inflight' = inflight
     ELSE /\ NextCall # 0
          /\ patch' = ErrorResponse(200, "")
          /\ inflight' = [inflight EXCEPT ![NextCall] =
                            Called("updateCandidateStatus", candidate_id.val,
                                   NoStoredViolation, NoRecording, status.val)]

\* PATCH sent by any client
Patch(candidate_id, status) ==
  /\ PatchRoute(candidate_id, status)
  /\ UNCHANGED <<kv, request, response, page>>
  /\ UNCHANGED <<ledgerVars, faceVars, guardVars, sinkVars, now>>

(***************************************************************************)
(* TerminatedPage: initialize()                                            *)
(***************************************************************************)
NoPage == [phase |-> "none", status |-> ""]

\* handleTerminated: router.push to the terminated page, which mounts and
\* starts initialize()
Navigate ==
  /\ termCalls > 0
  /\ page.phase = "none"
  /\ page' = [page EXCEPT !.phase = "fetching"]
  /\ UNCHANGED <<kv, request, response, inflight, patch>>
  /\ UNCHANGED <<ledgerVars, faceVars, guardVars, sinkVars, now>>

\* the fetch of the candidate answers: not ok throws and ends initialize(),
\* ok delivers the stored record
PageFetchCandidate(ok) ==
  /\ page.phase = "fetching"
  /\ page' = IF ok THEN [phase |-> "fetched", status |-> kv["cand1"].status]
             ELSE [page EXCEPT !.phase = "failed"]
  /\ UNCHANGED <<kv, request, response, inflight, patch>>
  /\ UNCHANGED <<ledgerVars, faceVars, guardVars, sinkVars, now>>

\* if (candidateData.status !== 'terminated') the PATCH is sent and its
\* answer is awaited, not read
PagePatch ==
  /\ page.phase = "fetched"
  /\ IF page.status # "terminated"
     THEN /\ PatchRoute(Str("cand1"), Str("terminated"))
          /\ page' = [page EXCEPT !.phase = "sent"]
     ELSE /\ page' = [page EXCEPT !.phase = "skipped"]
          /\ UNCHANGED <<patch, inflight>>
  /\ UNCHANGED <<kv, request, response>>
  /\ UNCHANGED <<ledgerVars, faceVars, guardVars, sinkVars, now>>

ApiInit ==
  /\ kv = [c \in CandidateIds |->
             IF c = "cand1"
             THEN [exists |-> TRUE, status |-> "registered",
                   recordings |-> <<>>, violations |-> <<>>]
             ELSE NoCandidate]
  /\ request = NoRequest
  /\ response = ErrorResponse(0, "")
  /\ inflight = [i \in CallIds |-> NoCall]
  /\ patch = ErrorResponse(0, "")
  /\ page = NoPage

LedgerInit ==
  /\ maxStrikes \in 2..MaxStrikesOption
  /\ strikes = 0
  /\ violations = <<>>
  /\ notification = NoNotification
  /\ isTerminated = FALSE
  /\ terminationRef = 0
  /\ timers = {}
  /\ pendingUpdates = <<>>
  /\ mounted = TRUE
  /\ notifs = <<>>
  /\ shown = {}
  /\ lastDismiss = "no"
  /\ termCalls = 0
  /\ disturbed = FALSE

Init ==
  /\ LedgerInit
  /\ FaceInit
  /\ GuardInit
  /\ SinkInit
  /\ ApiInit
  /\ onViolationLogged = FALSE
  /\ now = StartNow

Next ==
  \/ \E type \in LedgerKinds : HandleViolation(type)
  \/ DismissNotification
  \/ Reset
  \/ Render
  \/ TimerFire
  \/ Unmount
  \/ LedgerTick

Spec == Init /\ [][Next]_vars

NextFace ==
  \/ \E b \in BOOLEAN : SetActive(b)
  \/ ResolveStart
  \/ RejectStart
  \/ \E result \in DetectionResults : Sample(result)
  \/ SampleError
  \/ TrackOff
  \/ TrackOn
  \/ FaceTick

InitFace == Init /\ maxStrikes = MaxStrikesOption

SpecFace == InitFace /\ [][NextFace]_vars

\* the browser guard with the ledger it reports to
NextGuard ==
  \/ \E b \in BOOLEAN : GuardSetActive(b)
  \/ Rewire
  \/ \E hidden \in BOOLEAN : VisibilityChange(hidden)
  \/ \E type \in ClipboardEvents : ClipboardEvent(type)
  \/ \E key \in Keys, metaKey, ctrlKey, isMac \in BOOLEAN :
       KeyDown(key, metaKey, ctrlKey, isMac)
  \/ Render
  \/ TimerFire
  \/ GuardTick

SpecGuard == Init /\ [][NextGuard]_vars

\* the tab-switch path of the browser guard over time, with the ledger
NextTabs ==
  \/ \E b \in BOOLEAN : GuardSetActive(b)
  \/ Rewire
  \/ \E hidden \in BOOLEAN : VisibilityChange(hidden)
  \/ Render
  \/ TimerFire
  \/ GuardTick

SpecTabs == Init /\ [][NextTabs]_vars

\* the browser guard's events at one instant, with the renders of the ledger
NextClipboard ==
  \/ \E b \in BOOLEAN : GuardSetActive(b)
  \/ Rewire
  \/ \E hidden \in BOOLEAN : VisibilityChange(hidden)
  \/ \E type \in ClipboardEvents : ClipboardEvent(type)
  \/ \E key \in Keys, metaKey, ctrlKey, isMac \in BOOLEAN :
       KeyDown(key, metaKey, ctrlKey, isMac)
  \/ Render

SpecClipboard == Init /\ [][NextClipboard]_vars

\* the sampling of a running monitor on a finer clock: half the
\* LOOKING_AWAY threshold at a time
PoseTickMs == LOOKING_AWAY_THRESHOLD \div 2

PoseTick ==
  /\ now + PoseTickMs <= StartNow + PoseTicks * PoseTickMs
  /\ now' = now + PoseTickMs
  /\ UNCHANGED <<ledgerVars, faceVars, sideVars>>

NextPose ==
  \/ \E b \in BOOLEAN : SetActive(b)
  \/ ResolveStart
  \/ \E result \in DetectionResults : Sample(result)
  \/ PoseTick

SpecPose == InitFace /\ [][NextPose]_vars

\* the sampling of a monitor over the NO_FACE threshold and a cooldown
\* after it: samples with no face or one centred face, and the camera track
NoFaceResults ==
  {[faceCount |-> 0, headPose |-> "none"], [faceCount |-> 1, headPose |-> "CENTER"]}

NoFaceTick ==
  /\ now + FaceTickMs <= StartNow + NoFaceTicks * FaceTickMs
  /\ now' = now + FaceTickMs
  /\ UNCHANGED <<ledgerVars, faceVars, sideVars>>

NextNoFace ==
  \/ \E b \in BOOLEAN : SetActive(b)
  \/ ResolveStart
  \/ \E result \in NoFaceResults : Sample(result)
  \/ TrackOff
  \/ NoFaceTick

SpecNoFace == InitFace /\ [][NextNoFace]_vars

\* conditions that last: one sample per sampled kind (each clears the other
\* two), over the same horizon
SustainedResults ==
  {[faceCount |-> 0, headPose |-> "none"],
   [faceCount |-> 1, headPose |-> "LOOKING_DOWN"],
   [faceCount |-> 2, headPose |-> "none"]}

NextSustained ==
  \/ \E b \in BOOLEAN : SetActive(b)
  \/ ResolveStart
  \/ \E result \in SustainedResults : Sample(result)
  \/ NoFaceTick

SpecSustained == InitFace /\ [][NextSustained]_vars

\* the facade fed by both monitors on the fine clock: the browser guard's
\* events, the face monitor's onViolation calls for two of its kinds, the
\* renders and the termination timer
KindsTick ==
  /\ mounted
  /\ pendingUpdates = <<>>
  /\ \A t \in timers : t.due > now
  /\ now < StartNow + KindsTicks * PoseTickMs
  /\ now' = IF timers = {} THEN now + PoseTickMs
            ELSE Min(now + PoseTickMs,
                     (CHOOSE t \in timers : \A u \in timers : t.due <= u.due).due)
  /\ UNCHANGED <<ledgerVars, faceVars, sideVars>>

NextKinds ==
  \/ GuardSetActive(TRUE)
  \/ VisibilityChange(TRUE)
  \/ \E type \in {"NO_FACE", "LOOKING_AWAY"} : HandleViolation(type)
  \/ Render
  \/ TimerFire
  \/ KindsTick

\* the record page passes maxStrikes: 3
InitKinds == Init /\ maxStrikes = 3

SpecKinds == InitKinds /\ [][NextKinds]_vars

\* the facade with a persistence sink wired, as the record page wires it
InitLog ==
  /\ LedgerInit
  /\ maxStrikes = MaxStrikesOption
  /\ FaceInit
  /\ GuardInit
  /\ SinkInit
  /\ ApiInit
  /\ onViolationLogged = TRUE
  /\ now = StartNow

NextLog ==
  \/ HandleViolation("TAB_SWITCH")
  \/ Render
  \/ TimerFire
  \/ LedgerTick
  \/ LogResolve
  \/ LogReject

SpecLog == InitLog /\ [][NextLog]_vars

\* the endpoint under every body
NextApi == \E body \in Bodies : Post(body)

SpecApi == InitFace /\ [][NextApi]_vars

\* the store under overlapping accessor calls for one candidate
NextStore ==
  \/ \E violation \in StoredViolations : CallSaveViolation(violation)
  \/ \E recording \in StoredRecordings : CallSaveRecording(recording)
  \/ \E status \in {"submitted", "terminated"} : Patch(Str("cand1"), Str(status))
  \/ \E i \in CallIds : DbRead(i)
  \/ \E i \in CallIds : DbWrite(i)

SpecStore == InitFace /\ [][NextStore]_vars

\* the ledger to its termination, the navigation, the terminated page and
\* the status endpoint (which a submitting client calls too)
NextTerminate ==
  \/ HandleViolation("TAB_SWITCH")
  \/ Render
  \/ TimerFire
  \/ LedgerTick
  \/ Navigate
  \/ \E ok \in BOOLEAN : PageFetchCandidate(ok)
  \/ PagePatch
  \/ Patch(Str("cand1"), Str("submitted"))
  \/ \E i \in CallIds : DbRead(i)
  \/ \E i \in CallIds : DbWrite(i)

\* the ledger's own steps (a render, a due timer, the clock: at most one of
\* them is enabled at a time), the page's steps (the navigation and the two
\* awaits, one per position) and the store's answers all proceed; violations
\* and other clients' requests are the environment's choice
FairTerminate ==
  /\ WF_vars(Render \/ TimerFire \/ LedgerTick)
  /\ WF_vars(Navigate \/ PageFetchCandidate(TRUE) \/ PagePatch)
  /\ WF_vars(\E i \in CallIds : DbRead(i) \/ DbWrite(i))

SpecTerminate == InitFace /\ [][NextTerminate]_vars /\ FairTerminate

\* the facade at one instant: the ledger's operations and the activity
\* flag of the face monitor with its sampling (of no face and of two faces)
SessionResults == {r \in DetectionResults : r.faceCount # 1}

NextSession ==
  \/ HandleViolation("TAB_SWITCH")
  \/ Reset
  \/ Render
  \/ \E b \in BOOLEAN : SetActive(b)
  \/ ResolveStart
  \/ \E result \in SessionResults : Sample(result)

SpecSession == InitFace /\ [][NextSession]_vars

(***************************************************************************)
(* Claims about the strike ledger                                          *)
(***************************************************************************)
LastOp(q) == IF q = <<>> THEN "none" ELSE q[Len(q)].op

\* time of the strike that entered Terminated (no reset or unmount since)
TermAt == violations[Len(violations)].timestamp

\* C1: under every interleaving of violation callbacks, also several run
\* before the next render, 0 <= strikes <= maxStrikes.
C1_StrikesWithinMax == strikes \in 0..maxStrikes

\* C2: the termination callback runs exactly once per entry into
\* Terminated, TERMINATION_DELAY_MS after the terminal strike, unless reset()
\* or unmount comes first; at most one termination timer is pending at any
\* time; the callback never runs while the ledger is not terminated.
C2_TerminationCallback ==
  /\ [](Cardinality(timers) <= 1)
  /\ []((isTerminated /\ ~disturbed) =>
          IF termCalls = 0
          THEN /\ timers = {[id |-> terminationRef,
                             due |-> TermAt + TERMINATION_DELAY_MS]}
               /\ now <= TermAt + TERMINATION_DELAY_MS
          ELSE /\ termCalls = 1
               /\ timers = {}
               /\ now >= TermAt + TERMINATION_DELAY_MS)
  /\ [][termCalls' = termCalls + 1 =>
          /\ isTerminated
          /\ ~disturbed => now = TermAt + TERMINATION_DELAY_MS]_vars

C2_Witness == isTerminated /\ ~disturbed /\ termCalls = 1

\* C3: reset() in any ledger state leaves strikes = 0, an empty log, no
\* notification, is_terminated = false and no pending timer, and the
\* callback of a termination that reset() followed is never invoked.
C3_ResetClears ==
  /\ [][(mounted /\ LastOp(pendingUpdates) = "reset" /\ pendingUpdates' = <<>>) =>
          /\ strikes' = 0
          /\ violations' = <<>>
          /\ notification' = NoNotification
          /\ ~isTerminated'
          /\ timers' = {}]_vars
  /\ [][termCalls' = termCalls + 1 => ~disturbed]_vars

\* C4: a terminal notification is not dismissible, and once current it is
\* replaced or cleared only by a render that runs a reset(), whatever
\* dismissNotification calls arrive.
C4_TerminalStays ==
  /\ [](notification.severity = "terminal" => ~notification.dismissible)
  /\ [][(notification.severity = "terminal" /\ notification' # notification) =>
          HasOp(pendingUpdates, "reset")]_vars

C4_Witness ==
  notification.severity = "terminal" /\ lastDismiss = "terminal" /\ pendingUpdates = <<>>

\* C5: every violation in the log had its own notification made current
\* at some render.
C5_EveryNotificationShown == \A k \in 1..Len(violations) : k \in shown

\* C6: with maxStrikes = N >= 2 the notification of the k-th accepted
\* violation (k <= N) is a warning for k < N-1, reporting N-k warnings
\* remaining, final for k = N-1 and terminal for k = N, and is built from
\* that violation.
C6_SeverityLadder ==
  maxStrikes >= 2 =>
    /\ Len(notifs) = Len(violations)
    /\ \A k \in 1..Len(notifs) :
         k <= maxStrikes =>
           /\ notifs[k].title = VIOLATION_TITLES(violations[k].type)
           /\ notifs[k].message = violations[k].message
           /\ (k < maxStrikes - 1) =>
                (notifs[k].severity = "warning" /\ notifs[k].remaining = maxStrikes - k)
           /\ (k = maxStrikes - 1) => notifs[k].severity = "final"
           /\ (k = maxStrikes) => notifs[k].severity = "terminal"

C6_Witness ==
  /\ maxStrikes = 3
  /\ Len(notifs) = 3
  /\ notifs[1].severity = "warning"
  /\ notifs[2].severity = "final"
  /\ notifs[3].severity = "terminal"

\* C7: a warning or final notification is dismissible; dismissNotification
\* called while one is current queues its clearing, and the render of
\* nothing but such calls leaves no notification and the counter, the log
\* and is_terminated as they were.
C7_DismissClears ==
  /\ [](notification.severity \in {"warning", "final"} => notification.dismissible)
  /\ [](lastDismiss \in {"warning", "final"} => LastOp(pendingUpdates) = "dismiss")
  /\ [][(/\ mounted
         /\ pendingUpdates # <<>>
         /\ \A i \in 1..Len(pendingUpdates) : pendingUpdates[i].op = "dismiss"
         /\ pendingUpdates' = <<>>) =>
          /\ notification' = NoNotification
          /\ UNCHANGED <<strikes, violations, isTerminated>>]_vars

C7_Witness ==
  /\ notification = NoNotification
  /\ strikes >= 1
  /\ ~isTerminated
  /\ strikes \in shown
  /\ pendingUpdates = <<>>


\* C8: while the activity flag is false no detection sampling interval is
\* running, also when the flag fell while the start of continuous detection
\* was still pending, and no violation is delivered while inactive.
C8_NothingRunsInactive == ~isActive => (intervals = {} /\ ~emittedInactive)

\* C9: within one activation, two MULTIPLE_FACES violations, and two
\* CAMERA_OFF violations, are at least COOLDOWN_MS apart, whichever path of
\* the face monitor (effect 3, the track listener, the detector's onError)
\* emits them.
C9_InstantKindsCooldown == tooSoon \cap {"MULTIPLE_FACES", "CAMERA_OFF"} = {}

\* C10: an outage of the detector emits exactly one CAMERA_OFF violation,
\* not before MAX_DETECTION_ERRORS consecutive errors, and detection is
\* disabled from then on.
C10_OneUnavailable ==
  /\ unavailable <= 1
  /\ unavailable >= 1 => ~detectionEnabled
  /\ errorCountRef < MAX_DETECTION_ERRORS => (unavailable = 0 \/ ~detectionEnabled)


(***************************************************************************)
(* Claims about the hysteresis of the face monitor                         *)
(***************************************************************************)
Suspicious(result) ==
  result.faceCount = 1
    /\ result.headPose \in {"LOOKING_DOWN", "LOOKING_LEFT", "LOOKING_RIGHT"}

\* this step handed a violation of the kind to onViolation
Emits(type) == lastEmit'[type] = now /\ lastEmit[type] # now

TabSwitchHandled ==
  pendingUpdates' =
    IF isTerminated THEN pendingUpdates
    ELSE Append(pendingUpdates,
                [op |-> "addStrike",
                 violation |-> [type |-> "TAB_SWITCH", timestamp |-> now,
                                message |-> Message("TAB_SWITCH")]])

\* C12: in one activation the first document-hidden event emits no
\* violation and, when the notice callback is wired, exactly the
\* TAB_SWITCH_GRACE notice; the second, outside the cooldown, emits exactly
\* one TAB_SWITCH violation, which the facade handles, and no notice.
C12_GraceThenViolation ==
  [][VisibilityChange(TRUE) =>
       /\ hides = 0 =>
            /\ ~guardOut'.violation
            /\ guardOut'.notice = IF onActionBlocked THEN "TAB_SWITCH_GRACE" ELSE "none"
            /\ pendingUpdates' = pendingUpdates
       /\ (hides = 1 /\ (lastTab = NullTime \/ now - lastTab >= TAB_SWITCH_COOLDOWN_MS)) =>
            /\ guardOut'.violation
            /\ guardOut'.notice = "none"
            /\ TabSwitchHandled]_vars

\* the second hidden event of an activation was answered with a violation,
\* after a first one answered with the wired notice
C12_Witness ==
  /\ guardActive
  /\ onActionBlocked
  /\ hides = 2
  /\ guardOut.violation
  /\ lastTab = now
  /\ Len(pendingUpdates) = 1


\* the kind of clipboard action a shortcut letter stands for
ShortcutKind(key) ==
  CASE key \in {"c", "C"} -> "COPY_BLOCKED"
    [] key = "x" -> "CUT_BLOCKED"
    [] key = "v" -> "PASTE_BLOCKED"
    [] OTHER -> "none"

EventKind(type) ==
  CASE type = "copy" -> "COPY_BLOCKED"
    [] type = "cut" -> "CUT_BLOCKED"
    [] type = "paste" -> "PASTE_BLOCKED"

\* the answer to a clipboard action of the kind: prevented, the notice of
\* its category when the callback is wired, nothing reaching the ledger
Blocked(kind) ==
  /\ guardOut'.prevented
  /\ ~guardOut'.violation
  /\ guardOut'.notice = IF onActionBlocked THEN kind ELSE "none"
  /\ UNCHANGED <<strikes, violations, notification, isTerminated, pendingUpdates,
                 timers, lastViolationTime, hasSeenTabWarning>>

\* C13: every copy, cut or paste, as a clipboard event or as the shortcut
\* with the platform's modifier, is prevented and answered only with the
\* notice of its category; counter, log, notification and the updates
\* queued for them stay as they were.
C13_ClipboardNeverStrikes ==
  /\ [][\A type \in ClipboardEvents : ClipboardEvent(type) => Blocked(EventKind(type))]_vars
  /\ [][\A key \in Keys, metaKey, ctrlKey, isMac \in BOOLEAN :
          (/\ KeyDown(key, metaKey, ctrlKey, isMac)
           /\ ShortcutKind(key) # "none"
           /\ IF isMac THEN metaKey ELSE ctrlKey) => Blocked(ShortcutKind(key))]_vars

\* a paste was blocked while the ledger held a strike
C13_Witness ==
  /\ guardActive
  /\ onActionBlocked
  /\ guardOut = [prevented |-> TRUE, notice |-> "PASTE_BLOCKED", violation |-> FALSE]
  /\ strikes >= 1


\* C14: a subject whose nose is above the PITCH_UP line is classified
\* LOOKING_UP whatever the yaw; a one-face sample with pose LOOKING_UP or
\* CENTER clears the LOOKING_AWAY timing and fires nothing; and a
\* LOOKING_AWAY violation is only ever emitted while the current detection
\* shows one face looking down, left or right.
C14_LookingUpIsSafe ==
  /\ [](\A d \in PitchSamples, x \in YawSamples :
          d < PITCH_UP => AnalyzeHeadPose(d, x) = "LOOKING_UP")
  /\ [][\A r \in DetectionResults :
          (/\ r.faceCount = 1
           /\ r.headPose \in {"LOOKING_UP", "CENTER"}
           /\ isActive /\ detectionEnabled
           /\ Sample(r)) =>
            /\ tracker'["LOOKING_AWAY"].startTime = NullTime
            /\ ~Emits("LOOKING_AWAY")]_vars
  /\ [][Emits("LOOKING_AWAY") => Suspicious(currentDetection')]_vars

\* the subject has been looking up since before the threshold time
C14_Witness ==
  /\ isActive
  /\ intervals # {}
  /\ currentDetection = [faceCount |-> 1, headPose |-> "LOOKING_UP"]
  /\ now - StartNow >= LOOKING_AWAY_THRESHOLD + PoseTickMs
  /\ tracker["LOOKING_AWAY"].startTime = NullTime
  /\ lastFire["LOOKING_AWAY"] = NullTime


(***************************************************************************)
(* Claims about the facade                                                 *)
(***************************************************************************)
\* C15: the step that takes the activity flag to false puts every tracker
\* back to no start time and last fired time 0, hands no violation to the
\* facade and leaves counter, log, notification, is_terminated and the
\* updates queued for them as they were; the counter and the log shrink,
\* and is_terminated falls, only in a render that runs a reset().
C15_DeactivationKeepsLedger ==
  /\ [][SetActive(FALSE) =>
          /\ tracker' = [t \in FaceViolations |->
                           [startTime |-> NullTime, lastFiredTime |-> 0]]
          /\ \A type \in FaceViolations : ~Emits(type)
          /\ UNCHANGED <<strikes, violations, notification, isTerminated,
                         pendingUpdates, timers>>]_vars
  /\ [][(\/ strikes' < strikes
         \/ Len(violations') < Len(violations)
         \/ (isTerminated /\ ~isTerminated')) =>
          HasOp(pendingUpdates, "reset")]_vars

\* deactivated after a sample with two faces, with strikes in the ledger
C15_Witness ==
  /\ ~isActive
  /\ tracker["MULTIPLE_FACES"].lastFiredTime = 0
  /\ currentDetection.faceCount = 2
  /\ strikes >= 1
  /\ Len(violations) = strikes
  /\ notification # NoNotification

(***************************************************************************)
\* C16: the persistence call never shapes the ledger. A log call is issued
\* in the step that queues the strike for the same record and stays pending
\* (it is not awaited); a call that resolves or rejects changes nothing of
\* the ledger, a rejection only adds a console error; every accepted
\* violation is logged once; and a violation can be handled whenever the
\* ledger can take it, whatever calls are still pending.
C16_LogCallNeverTouchesLedger ==
  /\ [][(logPending' # logPending /\ sink' = sink) =>
          UNCHANGED ledgerVars]_vars
  /\ [][sink' # sink =>
          /\ sink' = Append(sink, sink'[Len(sink')])
          /\ pendingUpdates' =
               Append(pendingUpdates,
                      [op |-> "addStrike", violation |-> sink'[Len(sink')]])
          /\ logPending' = logPending \cup {Len(sink')}
          /\ consoleErrors' = consoleErrors]_vars
  /\ [][Len(pendingUpdates') > Len(pendingUpdates) =>
          Len(sink') = Len(sink) + 1]_vars
  /\ [][consoleErrors' # consoleErrors =>
          /\ consoleErrors' = consoleErrors + 1
          /\ UNCHANGED ledgerVars]_vars
  /\ []((mounted /\ Len(pendingUpdates) < MaxQueue) =>
          ENABLED HandleViolation("TAB_SWITCH"))

\* the first call never completed, a later one was rejected, and every
\* violation still reached the counter and the log
C16_Witness ==
  /\ Len(sink) >= 2
  /\ 1 \in logPending
  /\ consoleErrors >= 1
  /\ strikes = Len(sink)
  /\ Len(violations) = Len(sink)
  /\ isTerminated

\* the defects of a body the endpoint is to reject
Defective(body) ==
  \/ body.candidate_id.kind = "undefined"
  \/ body.violation.kind = "undefined"
  \/ body.violation.type.kind = "undefined"
  \/ body.violation.message.kind = "undefined"
  \/ body.violation.timestamp.kind # "number"
  \/ body.violation.type.kind # "string"
  \/ body.violation.type.val \notin ViolationTypes

(***************************************************************************)
\* C17: a POST whose body lacks candidate_id, lacks violation, has a
\* violation missing type or message or a non-numeric timestamp, or a type
\* outside the five kinds, is answered with status 400 and an error naming
\* the problem, and the store is left as it was.
C17_BadBodyRejected ==
  [][Defective(request') =>
       /\ response'.status = 400
       /\ response'.error # "Failed to save violation"
       /\ kv' = kv]_vars

\* the condition a kind's tracker times, as the monitor last sampled it
Condition(type) ==
  CASE type = "NO_FACE" ->
         /\ isActive /\ detectionEnabled
         /\ currentDetection.faceCount = 0 /\ cameraTrackActive
    [] type = "MULTIPLE_FACES" ->
         /\ isActive /\ detectionEnabled
         /\ currentDetection.faceCount > 1
    [] type = "LOOKING_AWAY" ->
         /\ isActive /\ detectionEnabled
         /\ Suspicious(currentDetection)
    [] type = "CAMERA_OFF" ->
         /\ isActive
         /\ ~cameraTrackActive

Timing(type) == tracker[type].startTime # NullTime

(***************************************************************************)
\* C18: for every violation kind the tracker has a start time exactly while
\* the kind's condition holds as last sampled; the start time is the time of
\* the step in which the condition became true and does not move while the
\* condition stays true.
C18_StartTimeTracksCondition ==
  /\ [](\A type \in FaceViolations : Timing(type) <=> Condition(type))
  /\ [][\A type \in FaceViolations :
          /\ (~Timing(type) /\ Timing(type)') => tracker'[type].startTime = now
          /\ (Timing(type) /\ Timing(type)') =>
               tracker'[type].startTime = tracker[type].startTime]_vars

\* the records of the addStrike updates of a queue, in dispatch order
RECURSIVE Accepted(_)
Accepted(q) ==
  IF q = <<>> THEN <<>>
  ELSE (IF Head(q).op = "addStrike" THEN <<Head(q).violation>> ELSE <<>>)
         \o Accepted(Tail(q))

IsPrefix(s, t) == Len(s) <= Len(t) /\ SubSeq(t, 1, Len(s)) = s

(***************************************************************************)
\* C19: between resets the log only grows at its end: a step that runs no
\* reset() keeps the old log as a prefix and appends the accepted violations
\* in the order their callbacks queued them; a callback queues its record
\* behind everything queued before; the counter is the length of the log,
\* so the k-th entry is the one that produced counter value k; and the
\* entries stand in the time order of their callbacks.
C19_LogAppendOnly ==
  /\ [][~HasOp(pendingUpdates, "reset") =>
          /\ IsPrefix(violations, violations')
          /\ violations' # violations =>
               violations' = violations \o Accepted(pendingUpdates)]_vars
  /\ [][Len(pendingUpdates') > Len(pendingUpdates) =>
          IsPrefix(pendingUpdates, pendingUpdates')]_vars
  /\ [](strikes = Len(violations))
  /\ [](\A i \in 1..Len(violations) : \A j \in i..Len(violations) :
          violations[i].timestamp <= violations[j].timestamp)

\* two violations of different monitors, queued by callbacks at different
\* times, stand in the log in callback order
C19_Witness ==
  /\ Len(violations) >= 2
  /\ violations[1].type = "TAB_SWITCH"
  /\ violations[2].type = "CAMERA_OFF"
  /\ violations[1].timestamp < violations[2].timestamp
  /\ strikes = 2

(***************************************************************************)
\* C20: the step that deactivates the browser monitor clears the grace flag
\* and the cooldown timestamp, and both stay cleared while it is inactive;
\* so in every activation the first hidden event finds the grace unused and
\* emits no violation, and the second one emits a violation however
\* recently an earlier activation emitted one; a change of the notice
\* callback while the monitor is active leaves both refs as they are.
C20_DeactivationRestoresGrace ==
  /\ [][(guardActive /\ ~guardActive') =>
          (~hasSeenTabWarning' /\ lastViolationTime' = 0)]_vars
  /\ [](~guardActive => (~hasSeenTabWarning /\ lastViolationTime = 0))
  /\ []((guardActive /\ hides = 0) => ~hasSeenTabWarning)
  /\ [][(VisibilityChange(TRUE) /\ hides = 0) =>
          (~guardOut'.violation /\ pendingUpdates' = pendingUpdates)]_vars
  /\ [][(VisibilityChange(TRUE) /\ hides = 1) =>
          (guardOut'.violation /\ lastViolationTime' = now)]_vars
  /\ [][(guardActive /\ onActionBlocked' # onActionBlocked) =>
          /\ hasSeenTabWarning' = hasSeenTabWarning
          /\ lastViolationTime' = lastViolationTime]_vars

\* the second hidden event of a later activation emitted a violation less
\* than the cooldown after the violation of an earlier activation
C20_Witness ==
  /\ guardActive
  /\ hides = 2
  /\ lastTab = now
  /\ guardOut.violation
  /\ \E i \in 1..Len(violations) :
       /\ violations[i].type = "TAB_SWITCH"
       /\ violations[i].timestamp < now
       /\ now - violations[i].timestamp < TAB_SWITCH_COOLDOWN_MS

(***************************************************************************)
\* C21: within one activation a TAB_SWITCH violation is emitted only when
\* none was emitted before or the last one is at least
\* TAB_SWITCH_COOLDOWN_MS old; a hidden event after the grace and inside the
\* cooldown emits no violation and no notice, queues nothing for the ledger
\* and leaves the cooldown timestamp where it was.
C21_TabSwitchCooldown ==
  /\ [][(VisibilityChange(TRUE) /\ guardOut'.violation) =>
          (lastTab = NullTime \/ now - lastTab >= TAB_SWITCH_COOLDOWN_MS)]_vars
  /\ [][(/\ VisibilityChange(TRUE)
         /\ hasSeenTabWarning
         /\ lastTab # NullTime
         /\ now - lastTab < TAB_SWITCH_COOLDOWN_MS) =>
          /\ ~guardOut'.violation
          /\ guardOut'.notice = "none"
          /\ pendingUpdates' = pendingUpdates
          /\ lastViolationTime' = lastViolationTime
          /\ lastTab' = lastTab]_vars
  /\ [](lastTab # NullTime => lastViolationTime = lastTab)

\* a hidden event was dropped one tick after a violation, and the cooldown
\* still counts from the violation
C21_Witness ==
  /\ guardActive
  /\ suppressed
  /\ lastTab # NullTime
  /\ lastTab < now
  /\ now - lastTab < TAB_SWITCH_COOLDOWN_MS
  /\ lastViolationTime = lastTab
  /\ guardOut = NoOut

(***************************************************************************)
\* C22: a NO_FACE violation is emitted only by a sample with faceCount 0
\* while the camera track is reported active, when the NO_FACE timing has
\* run for at least NO_FACE_THRESHOLD and the previous NO_FACE violation, in
\* this or an earlier activation, is at least COOLDOWN_MS old; the timing
\* runs only while the last sample had no face and the track is reported
\* active, starts at the time of the step that starts it and is not moved
\* while it runs.
C22_NoFaceOnlySustained ==
  /\ [][Emits("NO_FACE") =>
          /\ \E result \in NoFaceResults : Sample(result)
          /\ currentDetection'.faceCount = 0
          /\ cameraTrackActive /\ cameraTrackActive'
          /\ tracker["NO_FACE"].startTime # NullTime
          /\ now - tracker["NO_FACE"].startTime >= NO_FACE_THRESHOLD
          /\ tracker'["NO_FACE"].startTime = tracker["NO_FACE"].startTime
          /\ (lastFire["NO_FACE"] = NullTime
                \/ now - lastFire["NO_FACE"] >= COOLDOWN_MS)]_vars
  /\ [](Timing("NO_FACE") =>
          (isActive /\ currentDetection.faceCount = 0 /\ cameraTrackActive))
  /\ [][(~Timing("NO_FACE") /\ Timing("NO_FACE")') =>
          tracker'["NO_FACE"].startTime = now]_vars
  /\ [][(Timing("NO_FACE") /\ Timing("NO_FACE")') =>
          tracker'["NO_FACE"].startTime = tracker["NO_FACE"].startTime]_vars

\* NO_FACE was emitted a second time, a cooldown after the first, with no
\* face since before the threshold
C22_Witness ==
  /\ isActive
  /\ lastEmit["NO_FACE"] = now
  /\ currentDetection.faceCount = 0
  /\ now - tracker["NO_FACE"].startTime >= NO_FACE_THRESHOLD + COOLDOWN_MS
  /\ tracker["NO_FACE"].lastFiredTime = now

SampledKinds == {"NO_FACE", "MULTIPLE_FACES", "LOOKING_AWAY"}

Threshold(type) ==
  CASE type = "NO_FACE" -> NO_FACE_THRESHOLD
    [] type = "MULTIPLE_FACES" -> MULTIPLE_FACES_THRESHOLD
    [] type = "LOOKING_AWAY" -> LOOKING_AWAY_THRESHOLD
    [] OTHER -> CAMERA_OFF_THRESHOLD

\* the kind's condition in a detection result
ConditionIn(type, result) ==
  CASE type = "NO_FACE" -> result.faceCount = 0 /\ cameraTrackActive
    [] type = "MULTIPLE_FACES" -> result.faceCount > 1
    [] type = "LOOKING_AWAY" -> Suspicious(result)
    [] OTHER -> FALSE

(***************************************************************************)
\* C23: a firing sets the kind's last fired time to now and leaves its
\* start time (the one the timing had, or now when the same step started
\* it); a timing that runs is never moved; and a sample that finds the
\* condition still true, the timing at least the threshold old and the last
\* firing at least COOLDOWN_MS old fires again, while one that comes sooner
\* does not.
C23_SustainedFiresAgain ==
  /\ [][\A type \in SampledKinds :
          Emits(type) =>
            /\ tracker'[type].lastFiredTime = now
            /\ tracker'[type].startTime =
                 IF Timing(type) THEN tracker[type].startTime ELSE now]_vars
  /\ [][\A type \in SampledKinds :
          (Timing(type) /\ Timing(type)') =>
            tracker'[type].startTime = tracker[type].startTime]_vars
  /\ [][\A type \in SampledKinds :
          (/\ \E result \in SustainedResults : Sample(result)
           /\ isActive /\ detectionEnabled
           /\ Timing(type)
           /\ ConditionIn(type, currentDetection')) =>
            (Emits(type) <=>
               /\ now - tracker[type].startTime >= Threshold(type)
               /\ now - tracker[type].lastFiredTime >= COOLDOWN_MS)]_vars

\* two faces have been in view for a cooldown or longer, and the violation
\* that was emitted when they appeared has just been emitted again
C23_Witness ==
  /\ isActive
  /\ currentDetection.faceCount = 2
  /\ lastEmit["MULTIPLE_FACES"] = now
  /\ tracker["MULTIPLE_FACES"].lastFiredTime = now
  /\ now - tracker["MULTIPLE_FACES"].startTime >= COOLDOWN_MS

\* the log holds a TAB_SWITCH, a NO_FACE one second later and a
\* LOOKING_AWAY one second after that
ThreeKindsLogged ==
  /\ Len(violations) = 3
  /\ violations[1].type = "TAB_SWITCH"
  /\ violations[2].type = "NO_FACE"
  /\ violations[3].type = "LOOKING_AWAY"
  /\ violations[2].timestamp = violations[1].timestamp + 1000
  /\ violations[3].timestamp = violations[1].timestamp + 2000

(***************************************************************************)
\* C24: no kind's firing holds back another kind. A face violation handed
\* to the facade while the ledger is not terminated is queued whatever was
\* accepted before and however recently, also inside the tab-switch
\* cooldown; a hidden event after the grace is held back by the last
\* TAB_SWITCH only. With maxStrikes = 3, a TAB_SWITCH at t0, a NO_FACE at
\* t0 + 1 s and a LOOKING_AWAY at t0 + 2 s give the counter 3, the
\* notifications warning, final, terminal, and the termination callback
\* once, at t0 + 2 s + TERMINATION_DELAY_MS.
C24_KindsDoNotInterfere ==
  /\ [][\A type \in {"NO_FACE", "LOOKING_AWAY"} :
          (HandleViolation(type) /\ ~isTerminated) =>
            pendingUpdates' =
              Append(pendingUpdates,
                     [op |-> "addStrike",
                      violation |-> [type |-> type, timestamp |-> now,
                                     message |-> Message(type)]])]_vars
  /\ [][(/\ VisibilityChange(TRUE)
         /\ hasSeenTabWarning
         /\ ~isTerminated
         /\ now - lastViolationTime >= TAB_SWITCH_COOLDOWN_MS) =>
          TabSwitchHandled]_vars
  /\ [](ThreeKindsLogged =>
          /\ maxStrikes = 3
          /\ strikes = 3
          /\ isTerminated
          /\ Len(notifs) = 3
          /\ notifs[1].severity = "warning"
          /\ notifs[2].severity = "final"
          /\ notifs[3].severity = "terminal"
          /\ IF termCalls = 0
             THEN /\ timers = {[id |-> terminationRef,
                                due |-> violations[3].timestamp
                                          + TERMINATION_DELAY_MS]}
                  /\ now <= violations[3].timestamp + TERMINATION_DELAY_MS
             ELSE /\ termCalls = 1
                  /\ timers = {}
                  /\ now >= violations[3].timestamp + TERMINATION_DELAY_MS)
  /\ [][(ThreeKindsLogged /\ termCalls' # termCalls) =>
          now = violations[3].timestamp + TERMINATION_DELAY_MS]_vars

\* the three violations were accepted one second apart, the first after
\* the grace, and the callback has run
C24_Witness ==
  /\ ThreeKindsLogged
  /\ hasSeenTabWarning
  /\ lastViolationTime = violations[1].timestamp
  /\ termCalls = 1
  /\ now = violations[1].timestamp + 2000 + TERMINATION_DELAY_MS

(***************************************************************************)
\* C25: in every state of the ledger the log is as long as the counter
\* says, whatever add_strike, dismiss_notification and reset calls were
\* interleaved and however they were batched into renders; a render whose
\* last queued call is a reset leaves both at 0.
C25_LogLengthIsCounter ==
  /\ [](Len(violations) = strikes)
  /\ [][(LastOp(pendingUpdates) = "reset" /\ pendingUpdates' = <<>>) =>
          (strikes' = 0 /\ violations' = <<>>)]_vars
  /\ [][(LastOp(pendingUpdates) = "dismiss" /\ pendingUpdates' = <<>>
           /\ ~HasOp(pendingUpdates, "reset")
           /\ ~HasOp(pendingUpdates, "addStrike")) =>
          (strikes' = strikes /\ violations' = violations)]_vars

\* two violations were counted in one render after the counter had reached
\* maxStrikes - 1, and the log has an entry for each
C25_Witness ==
  /\ strikes = maxStrikes + 1
  /\ Len(violations) = maxStrikes + 1
  /\ isTerminated

(***************************************************************************)
\* C26: in every state of the ledger is_terminated is true exactly when
\* strikes >= maxStrikes.
C26_TerminatedIffMaxStrikes == isTerminated <=> (strikes >= maxStrikes)

(***************************************************************************)
\* C27: the step that re-activates the face monitor emits no violation: the
\* detection result retained from before the deactivation is not evaluated
\* against the freshly reset trackers.
C27_ReactivationIgnoresStaleDetection ==
  [][(SetActive(TRUE) /\ currentDetection # NoDetection) =>
       \A type \in FaceViolations : ~Emits(type)]_vars

(***************************************************************************)
\* C28: the records handed to the persistence sink are, in order, exactly
\* the records the ledger has appended to its log followed by those it has
\* accepted and not yet appended: one call per record, none for a violation
\* the facade dropped because the ledger had terminated.
C28_SinkMirrorsLog ==
  /\ [](sink = violations \o Accepted(pendingUpdates))
  /\ [][(HandleViolation("TAB_SWITCH") /\ isTerminated) => sink' = sink]_vars

\* the terminal strike and one more accepted in the same batch both reached
\* the sink, and the log and the sink agree
C28_Witness ==
  /\ isTerminated
  /\ Len(violations) = maxStrikes + 1
  /\ sink = violations
  /\ pendingUpdates = <<>>

\* the saveViolation calls that have completed
SavedViolations ==
  {i \in CallIds : inflight[i].op = "saveViolation" /\ inflight[i].phase = "done"}

\* no accessor call is between its start and its kv.set
Quiescent == \A i \in CallIds : inflight[i].phase \notin {"called", "read"}

(***************************************************************************)
\* C29: once every overlapping accessor call has completed, the stored list
\* holds one violation per completed saveViolation call; and the write of a
\* saveRecording or updateCandidateStatus call keeps every stored violation.
C29_OverlappingWritesKeepViolations ==
  /\ [](Quiescent =>
          Len(kv["cand1"].violations) = Cardinality(SavedViolations))
  /\ [][\A i \in CallIds :
          (/\ inflight[i].phase = "read"
           /\ inflight'[i].phase = "done"
           /\ inflight[i].op # "saveViolation") =>
            IsPrefix(kv["cand1"].violations, kv'["cand1"].violations)]_vars

(***************************************************************************)
\* C30: once the terminated page has sent its status update (the candidate
\* it fetched was not yet 'terminated'), the candidate's stored status
\* eventually is 'terminated'.
C30_TerminatedStatusStored ==
  (page.phase = "sent") ~> (kv["cand1"].status = "terminated")

============================================================================
